---- MODULE Spec2Model ----
(***************************************************************************)
(* State-machine model of the form state container of svelte-forms         *)
(* (src/src/index.ts, src/src/utils.ts).                                   *)
(*                                                                         *)
(* JavaScript objects live on a heap of cells addressed by small integers, *)
(* so that "the same object" and "an equal copy" are different things:     *)
(* the `values` and `__initialValues` stores hold references, `clone`      *)
(* allocates, and in-place writes change every holder of a reference.      *)
(***************************************************************************)
EXTENDS Integers, Sequences, FiniteSets, TLC

VARIABLES
    heap,             \* address -> cell (object, array or free)
    config,           \* the FormConfig given to newForm (never changes)
    caller,           \* the object the caller last passed as initial values
    __initialValues,  \* store: reference to the initial-values object
    values,           \* store: reference to the current-values object
    __errors,         \* store: field -> message | null | undefined
    __touched,        \* store: field -> boolean
    __isSubmitting,   \* store: boolean
    __isValidating,   \* store: boolean
    calls,            \* handleSubmit invocations: position and what each saw
    pending,          \* validateField invocations awaiting validateAt
    last              \* the call that ended in the latest step, and how it ended

vars == <<heap, config, caller, __initialValues, values, __errors, __touched,
          __isSubmitting, __isValidating, calls, pending, last>>

-----------------------------------------------------------------------------
(* Bounds *)

MaxCalls == 2      \* handleSubmit invocations that may overlap
MaxPending == 1    \* validateField invocations that may be pending at once
MaxElems == 1      \* longest array a caller builds by pushing

-----------------------------------------------------------------------------
(* JavaScript values *)

Str(s)  == [str |-> s]
Bool(b) == [bool |-> b]
Ref(a)  == [ref |-> a]
Null      == [null |-> TRUE]
Undefined == [undef |-> TRUE]

IsRef(v) == DOMAIN v = {"ref"}
IsStr(v) == DOMAIN v = {"str"}

Free == [free |-> TRUE]
Obj(p) == [props |-> p]
Arr(s) == [elems |-> s]
IsObj(c) == DOMAIN c = {"props"}
IsArr(c) == DOMAIN c = {"elems"}

\* a Date: an object whose state is its time value, not a property
DateCell(t) == [time |-> t]
IsDate(c) == DOMAIN c = {"time"}

NoProps == [k \in {} |-> Null]

\* the own enumerable properties of an object, which { ...o } copies
OwnProps(c) == IF IsObj(c) THEN c.props ELSE NoProps

\* Object.keys enumerates in insertion order; every object of the model is
\* written with its keys in this order.
KeyOrder == <<"name", "tags", "pet", "kind", "born">>

Keys(p) == SelectSeq(KeyOrder, LAMBDA k : k \in DOMAIN p)

\* obj[field]: a missing property reads as undefined
Get(p, k) == IF k \in DOMAIN p THEN p[k] ELSE Undefined

\* { ...p, [k]: v }
Spread(p, k, v) == [x \in DOMAIN p \cup {k} |-> IF x = k THEN v ELSE p[x]]

-----------------------------------------------------------------------------
(* The heap *)

NoRef == 0
Addr == 1..16

EmptyHeap == [a \in Addr |-> Free]

Alloc(h) == CHOOSE a \in Addr : h[a] = Free /\ \A b \in Addr : h[b] = Free => a <= b

New(h, cell) == LET a == Alloc(h) IN [heap |-> [h EXCEPT ![a] = cell], ref |-> a]

\* The value of a cell with every reference followed (toEqual's view).
RECURSIVE Deep(_, _)
DeepVal(h, v) == IF IsRef(v) THEN Deep(h, v.ref) ELSE v
Deep(h, a) ==
    IF IsObj(h[a]) THEN [obj |-> [k \in DOMAIN h[a].props |-> DeepVal(h, h[a].props[k])]]
    ELSE IF IsArr(h[a]) THEN [arr |-> [i \in DOMAIN h[a].elems |-> DeepVal(h, h[a].elems[i])]]
    ELSE IF IsDate(h[a]) THEN [date |-> h[a].time]
    ELSE Free

\* The references of a cell in the order the engine meets them.
RECURSIVE SeqRefs(_, _)
SeqRefs(vs, i) ==
    IF i > Len(vs) THEN <<>>
    ELSE (IF IsRef(vs[i]) THEN <<vs[i].ref>> ELSE <<>>) \o SeqRefs(vs, i + 1)

RefSeq(c) ==
    IF IsObj(c) THEN SeqRefs([i \in 1..Len(Keys(c.props)) |-> c.props[Keys(c.props)[i]]], 1)
    ELSE IF IsArr(c) THEN SeqRefs(c.elems, 1)
    ELSE <<>>

Range(s) == {s[i] : i \in DOMAIN s}

\* The live cells, each once, in the order a traversal from the holders
\* meets them.
Visit(h, queue, seen) ==
    LET visit[qs \in Seq(Addr \cup {NoRef}) \X Seq(Addr)] ==
            IF qs[1] = <<>> THEN qs[2]
            ELSE LET a == Head(qs[1])
                 IN IF a = NoRef \/ a \in Range(qs[2])
                    THEN visit[<<Tail(qs[1]), qs[2]>>]
                    ELSE visit[<<Tail(qs[1]) \o RefSeq(h[a]), Append(qs[2], a)>>]
    IN visit[<<queue, seen>>]

IndexOf(s, a) == CHOOSE i \in DOMAIN s : s[i] = a

\* Addresses are not observable in JavaScript: after every step the live
\* cells are renumbered in traversal order and the dead ones are dropped
\* (garbage collection), so that equal object graphs are equal states.
Move(order, a) == IF a = NoRef THEN NoRef ELSE IndexOf(order, a)

MoveVal(order, v) == IF IsRef(v) THEN Ref(Move(order, v.ref)) ELSE v

MoveCell(order, c) ==
    IF IsObj(c) THEN Obj([k \in DOMAIN c.props |-> MoveVal(order, c.props[k])])
    ELSE IF IsArr(c) THEN Arr([i \in DOMAIN c.elems |-> MoveVal(order, c.elems[i])])
    ELSE c

Compact(h, order) ==
    [a \in Addr |-> IF a <= Len(order) THEN MoveCell(order, h[order[a]]) ELSE Free]

\* the properties of the object a store or a variable refers to
Props(h, ref) == h[ref].props

-----------------------------------------------------------------------------
(* utils.ts: clone *)

\* one entry of the map callback
CloneEntry(h, v, defaultValue) ==
    IF defaultValue # Undefined THEN [heap |-> h, val |-> defaultValue]
    ELSE IF IsRef(v) /\ IsArr(h[v.ref]) THEN
        LET n == New(h, Arr(h[v.ref].elems)) IN [heap |-> n.heap, val |-> Ref(n.ref)]
    ELSE IF IsRef(v) THEN
        LET n == New(h, Obj(OwnProps(h[v.ref]))) IN [heap |-> n.heap, val |-> Ref(n.ref)]
    ELSE [heap |-> h, val |-> v]

RECURSIVE CloneEntries(_, _, _, _, _)
CloneEntries(h, p, keys, defaultValue, acc) ==
    IF keys = <<>> THEN [heap |-> h, props |-> acc]
    ELSE LET k == Head(keys)
             e == CloneEntry(h, p[k], defaultValue)
         IN CloneEntries(e.heap, p, Tail(keys), defaultValue, Spread(acc, k, e.val))

\* clone returning its argument when no default is given
clone_sameObject(h, obj, defaultValue) ==
    IF defaultValue = Undefined THEN [heap |-> h, ref |-> obj]
    ELSE LET e == CloneEntries(h, h[obj].props, Keys(h[obj].props), defaultValue, NoProps)
         IN New(e.heap, Obj(e.props))

\* clone(obj, defaultValue): Object.fromEntries(Object.keys(obj).map(...)), a
\* new object; `obj` is the address of the source
clone(h, obj, defaultValue) ==
    LET e == CloneEntries(h, h[obj].props, Keys(h[obj].props), defaultValue, NoProps)
    IN New(e.heap, Obj(e.props))

-----------------------------------------------------------------------------
(* Objects the caller writes as literals *)

ArrLit(s) == [arr |-> s]
ObjLit(p) == [obj |-> p]
DateLit(t) == [date |-> t]
IsArrLit(v) == DOMAIN v = {"arr"}
IsDateLit(v) == DOMAIN v = {"date"}
IsLit(v) == DOMAIN v \in {{"arr"}, {"obj"}, {"date"}}
LitCell(v) ==
    IF IsArrLit(v) THEN Arr(v.arr)
    ELSE IF IsDateLit(v) THEN DateCell(v.date)
    ELSE Obj(v.obj)

\* allocate the containers of an object literal, then the object itself
RECURSIVE LitEntries(_, _, _, _)
LitEntries(h, lit, keys, acc) ==
    IF keys = <<>> THEN [heap |-> h, props |-> acc]
    ELSE LET k == Head(keys)
         IN IF IsLit(lit[k])
            THEN LET n == New(h, LitCell(lit[k]))
                 IN LitEntries(n.heap, lit, Tail(keys), Spread(acc, k, Ref(n.ref)))
            ELSE LitEntries(h, lit, Tail(keys), Spread(acc, k, lit[k]))

MakeObject(h, lit) ==
    LET e == LitEntries(h, lit, Keys(lit), NoProps) IN New(e.heap, Obj(e.props))

\* the initial-values objects callers pass to newForm and setInitialValues
InitialValuesInputs ==
    {[name |-> Str(n), tags |-> ArrLit(t)] : n \in {"", "ab"}, t \in {<<>>, <<Str("x")>>}}
        \cup {[name |-> Str(n), pet |-> ObjLit([kind |-> Str("dog")])] : n \in {"", "ab"}}
        \cup {[name |-> Str(n)] : n \in {"", "ab"}}

\* the values callers pass to setFieldValue and inputs deliver
ValueInputs(f) ==
    IF f = "tags" THEN {ArrLit(<<>>), ArrLit(<<Str("x")>>)}
    ELSE IF f = "pet" THEN {ObjLit([kind |-> Str("dog")])}
    ELSE {Str(""), Str("ab")}

Messages == {"taken"}

-----------------------------------------------------------------------------
(* The validation schema (yup), as the form uses it *)

\* Yup.object({ name: Yup.string().required().min(2), tags: Yup.array().min(1) })
SchemaTests ==
    << [path |-> "name", test |-> "required", message |-> "required"],
       [path |-> "name", test |-> "min",      message |-> "short"],
       [path |-> "tags", test |-> "nonEmpty", message |-> "empty"] >>

Fails(h, t, v) ==
    CASE t.test = "required" -> v \in {Undefined, Null, Str("")}
      [] t.test = "min"      -> IsStr(v) /\ Len(v.str) < 2
      [] t.test = "nonEmpty" -> IsRef(v) /\ IsArr(h[v.ref]) /\ Len(h[v.ref].elems) < 1

\* the failures of object p, in schema order
Failures(h, p) == SelectSeq(SchemaTests, LAMBDA t : Fails(h, t, Get(p, t.path)))

FailuresAt(h, p, field) == SelectSeq(Failures(h, p), LAMBDA t : t.path = field)

Pass == [pass |-> TRUE]
Threw(e) == [threw |-> e]
IsThrow(o) == DOMAIN o = {"threw"}

\* schema.validate(values, { abortEarly: false }): passes, or throws a
\* ValidationError whose `inner` lists every failure
validate(h, p) ==
    LET fs == Failures(h, p)
    IN IF fs = <<>> THEN Pass
       ELSE Threw([inner  |-> [i \in DOMAIN fs |-> [path |-> fs[i].path, message |-> fs[i].message]],
                   errors |-> [i \in DOMAIN fs |-> fs[i].message]])

\* schema.validateAt(field, values): passes, or throws a ValidationError
\* carrying the field's path and its first message
validateAt(h, p, field) ==
    LET fs == FailuresAt(h, p, field)
    IN IF fs = <<>> THEN Pass
       ELSE Threw([path |-> field, errors |-> <<fs[1].message>>, inner |-> <<>>])

\* what a schema or an onSubmit may throw besides a ValidationError
OtherErrors == {[message |-> "boom"]}

-----------------------------------------------------------------------------
(* index.ts: newForm *)

Calls == 1..MaxCalls
Slots == 1..MaxPending

None == [none |-> TRUE]

\* a handleSubmit invocation: where it is, the object it read from the values
\* store, what its validate call does when it settles, how often it has
\* invoked onSubmit and with which object
Idle == [pc |-> "idle", currentValues |-> NoRef, outcome |-> None, invoked |-> 0,
         arg |-> NoRef]

\* the state newForm(config) builds from the caller's object `obj`
newForm(h, obj) ==
    LET iv == clone(h, obj, Undefined)                        \* __initialValues
        es == clone(iv.heap, iv.ref, Null)                    \* __errors
        ts == clone(iv.heap, iv.ref, Bool(FALSE))             \* __touched
        vs == New(iv.heap, Obj(Props(iv.heap, iv.ref)))       \* { ...get(__initialValues) }
    IN [heap          |-> vs.heap,
        initialValues |-> iv.ref,
        values        |-> vs.ref,
        errors        |-> Props(es.heap, es.ref),
        touched       |-> Props(ts.heap, ts.ref)]

Configs == [onSubmit : BOOLEAN, validationSchema : {"none", "yup"}]

\* the holders of references, in a fixed order
Holders(clr, iv, vs, cls) ==
    <<iv, vs, clr>> \o [c \in Calls |-> cls[c].currentValues] \o [c \in Calls |-> cls[c].arg]

\* the heap and the references a step leaves behind (the heap and the
\* traversal order are bound by \E so that they are computed once)
Commit(h, clr, iv, vs, cls) ==
    \E hp \in {h} :
      \E order \in {Visit(hp, Holders(clr, iv, vs, cls), <<>>)} :
        /\ heap' = Compact(hp, order)
        /\ caller' = Move(order, clr)
        /\ __initialValues' = Move(order, iv)
        /\ values' = Move(order, vs)
        /\ calls' = [c \in Calls |-> [cls[c] EXCEPT !.currentValues = Move(order, @),
                                                     !.arg = Move(order, @)]]

\* `last` after a step in which no call of handleSubmit, validateField or
\* validateFieldSync ended
Quiet == [op |-> "none", via |-> "", field |-> "", outcome |-> None, invoked |-> 0,
          result |-> None]

InitWith(lits, cfgs) ==
    \E lit \in lits, cfg \in cfgs :
      \E o \in {MakeObject(EmptyHeap, lit)} :
      \E f \in {newForm(o.heap, o.ref)} :
      \E cls \in {[c \in Calls |-> Idle]} :
      \E order \in {Visit(f.heap, Holders(o.ref, f.initialValues, f.values, cls), <<>>)} :
           /\ heap = Compact(f.heap, order)
           /\ config = [k \in DOMAIN cfg \cup {"fields"} |->
                           IF k = "fields" THEN DOMAIN lit ELSE cfg[k]]
           /\ caller = Move(order, o.ref)
           /\ __initialValues = Move(order, f.initialValues)
           /\ values = Move(order, f.values)
           /\ __errors = f.errors
           /\ __touched = f.touched
           /\ __isSubmitting = FALSE
           /\ __isValidating = FALSE
           /\ calls = cls
           /\ pending = [s \in Slots |-> [pc |-> "idle"]]
           /\ last = Quiet

Init == InitWith(InitialValuesInputs, {c \in Configs : c.onSubmit})

-----------------------------------------------------------------------------
(* index.ts: the synchronous mutators *)

Normal == [normal |-> TRUE]

Resolved == [resolved |-> TRUE]
Rejected(e) == [rejected |-> e]

\* how a function that completed normally, returned or threw ends for its caller
Settle(completion) == IF IsThrow(completion) THEN Rejected(completion.threw) ELSE Resolved

TypeError == [message |-> "TypeError"]

\* the configs callers pass to newForm: none, null, an object without
\* initialValues, and objects whose initialValues is falsy or an object
NewFormInputs ==
    {Undefined, Null, [onSubmit |-> TRUE, validationSchema |-> "none"]}
        \cup [initialValues : {Undefined, Null, Str(""), Bool(FALSE)}
                                \cup {ObjLit(l) : l \in {[name |-> Str("")],
                                                         [name |-> Str("ab"), tags |-> ArrLit(<<>>)]}},
              onSubmit : {TRUE}, validationSchema : {"none", "yup"}]

\* !v
Falsy(v) == v \in {Undefined, Null, Str(""), Bool(FALSE)}

\* the guards of newForm that reject only a missing initialValues
newFormGuards_nullish(cfg) ==
    IF cfg = Undefined THEN Threw(TypeError)
    ELSE IF cfg = Null THEN Threw(TypeError)
    ELSE IF Get(cfg, "initialValues") \in {Undefined, Null} THEN Threw(TypeError)
    ELSE Normal

\* the guards of newForm: typeof config === 'undefined', then
\* !config.initialValues, a read that itself throws a TypeError on null
newFormGuards(cfg) ==
    IF cfg = Undefined THEN Threw(TypeError)
    ELSE IF cfg = Null THEN Threw(TypeError)
    ELSE IF Falsy(Get(cfg, "initialValues")) THEN Threw(TypeError)
    ELSE Normal

\* newForm has thrown: there is no form, and no store
NoForm(cfg, completion) ==
    /\ heap = EmptyHeap
    /\ config = cfg
    /\ caller = NoRef
    /\ __initialValues = NoRef
    /\ values = NoRef
    /\ __errors = NoProps
    /\ __touched = NoProps
    /\ __isSubmitting = FALSE
    /\ __isValidating = FALSE
    /\ calls = [c \in Calls |-> Idle]
    /\ pending = [s \in Slots |-> [pc |-> "idle"]]
    /\ last = [Quiet EXCEPT !.op = "newForm", !.result = Settle(completion)]

\* the form newForm builds past its guards from an initialValues that is not
\* an object: clone finds no key to copy
EmptyForm(cfg) ==
    \E iv \in {New(EmptyHeap, Obj(NoProps))} :
    \E vs \in {New(iv.heap, Obj(NoProps))} :
        /\ heap = vs.heap
        /\ config = [onSubmit |-> cfg.onSubmit,
                     validationSchema |-> cfg.validationSchema,
                     fields |-> {}]
        /\ caller = NoRef
        /\ __initialValues = iv.ref
        /\ values = vs.ref
        /\ __errors = NoProps
        /\ __touched = NoProps
        /\ __isSubmitting = FALSE
        /\ __isValidating = FALSE
        /\ calls = [c \in Calls |-> Idle]
        /\ pending = [s \in Slots |-> [pc |-> "idle"]]
        /\ last = Quiet

\* newForm(cfg)
NewForm(cfg) ==
    \E g \in {newFormGuards(cfg)} :
        IF IsThrow(g) THEN NoForm(cfg, g)
        ELSE IF IsLit(cfg.initialValues)
        THEN InitWith({cfg.initialValues.obj},
                      {[onSubmit |-> cfg.onSubmit, validationSchema |-> cfg.validationSchema]})
        ELSE EmptyForm(cfg)

\* newForm has returned a form
Created == values # NoRef

\* clearErrors with the keys the form was created with
clearErrors_ofCreation(h, iv) == [k \in config.fields |-> Null]

clearErrors(h, iv) == LET c == clone(h, iv, Null) IN Props(c.heap, c.ref)

\* setFieldError removing the entry when no message is given
setFieldError_deletesKey(errors, field, message) ==
    IF message = Undefined
    THEN [k \in DOMAIN errors \ {field} |-> errors[k]]
    ELSE Spread(errors, field, message)

setFieldError(errors, field, message) == Spread(errors, field, message)

IsBool(v) == DOMAIN v = {"bool"}

\* setFieldTouched storing whatever it is given
setFieldTouched_noGuard(touched, field, value) ==
    [touched |-> Spread(touched, field, IF value = Undefined THEN Bool(TRUE) ELSE value),
     completion |-> Normal]

\* setFieldTouched(field, value = true): the default applies to an omitted
\* (undefined) argument; a value that is no boolean throws
setFieldTouched(touched, field, value) ==
    LET v == IF value = Undefined THEN Bool(TRUE) ELSE value
    IN IF ~IsBool(v)
       THEN [touched |-> touched, completion |-> Threw(TypeError)]
       ELSE [touched |-> Spread(touched, field, v), completion |-> Normal]

\* the message a thrown error puts in the store: error.errors[0]
FirstMessage(error) == IF error.errors = <<>> THEN Undefined ELSE Str(error.errors[1])

\* a value that is not an object: the `in` operator throws on it
IsPrimitive(v) == DOMAIN v \in {{"str"}, {"bool"}, {"null"}, {"undef"}}

\* 'path' in error && Array.isArray(error?.errors): set the message, else log
setYupValidationErrors(errors, error) ==
    IF IsPrimitive(error)
    THEN [errors |-> errors, completion |-> Threw(TypeError)]
    ELSE IF "path" \in DOMAIN error /\ "errors" \in DOMAIN error
    THEN [errors |-> setFieldError(errors, error.path, FirstMessage(error)),
          completion |-> Normal]
    ELSE [errors |-> errors, completion |-> Normal]

\* what a schema written by the caller may throw that is not a ValidationError
\* of yup: a string, an object without `path`, one without `errors`, and one
\* whose `errors` list is empty
MalformedErrors ==
    { Str("oops"),
      [errors |-> <<"lost">>],
      [path |-> "name"],
      [path |-> "name", errors |-> <<>>] }

\* a ValidationError the caller's schema throws for a place inside the field it
\* was asked about: its `path` is not the field's name
NestedErrors == { [path |-> "name.first", errors |-> <<"required">>, inner |-> <<>>] }

\* what validateAt / validateSyncAt do when called on config.validationSchema
ValidateAtOutcomes(h, p, field) ==
    CASE config.validationSchema = "none"   -> {Threw(TypeError)}
      [] config.validationSchema = "custom" ->
             {Threw(e) : e \in MalformedErrors \cup NestedErrors}
      [] OTHER -> {validateAt(h, p, field)} \cup {Threw(e) : e \in OtherErrors}

\* validateFieldSync leaving the field's message alone when the schema accepts
validateFieldSync_keepsError(errors, field, outcome) ==
    IF outcome = Pass
    THEN [errors |-> errors, completion |-> Normal]
    ELSE setYupValidationErrors(errors, outcome.threw)

\* the body of validateFieldSync once validateSyncAt has passed or thrown
validateFieldSync(errors, field, outcome) ==
    IF outcome = Pass
    THEN [errors |-> Spread(errors, field, Undefined), completion |-> Normal]
    ELSE setYupValidationErrors(errors, outcome.threw)

\* setFieldValue storing { [field]: value } without the spread
setFieldValue_dropsOthers(h, vs, field, value) ==
    IF IsLit(value)
    THEN LET a == New(h, LitCell(value))
         IN New(a.heap, Obj(Spread(NoProps, field, Ref(a.ref))))
    ELSE New(h, Obj(Spread(NoProps, field, value)))

\* setFieldValue writing the field into the object the store holds
setFieldValue_inPlace(h, vs, field, value) ==
    IF IsLit(value)
    THEN LET a == New(h, LitCell(value))
         IN [heap |-> [a.heap EXCEPT ![vs] = Obj(Spread(Props(a.heap, vs), field, Ref(a.ref)))],
             ref |-> vs]
    ELSE [heap |-> [h EXCEPT ![vs] = Obj(Spread(Props(h, vs), field, value))], ref |-> vs]

\* the object { ...currentValues, [field]: value }
setFieldValue(h, vs, field, value) ==
    IF IsLit(value)
    THEN LET a == New(h, LitCell(value))
         IN New(a.heap, Obj(Spread(Props(a.heap, vs), field, Ref(a.ref))))
    ELSE New(h, Obj(Spread(Props(h, vs), field, value)))

\* the object reset() puts in the values store
reset(h, iv) == [heap |-> h, ref |-> iv]

ClearErrors ==
    /\ __errors' = clearErrors(heap, __initialValues)
    /\ UNCHANGED <<heap, config, caller, __initialValues, values, __touched,
                   __isSubmitting, __isValidating, calls, pending>>
    /\ last' = Quiet

\* what callers pass as the message of setFieldError: a string, or nothing
ErrorInputs == {Str(x) : x \in Messages} \cup {Undefined}

\* setFieldError(f, m)
SetFieldErrorWith(f, m) ==
    /\ __errors' = setFieldError(__errors, f, m)
    /\ UNCHANGED <<heap, config, caller, __initialValues, values, __touched,
                   __isSubmitting, __isValidating, calls, pending>>
    /\ last' = Quiet

SetFieldError(f) == \E m \in ErrorInputs : SetFieldErrorWith(f, m)

\* what callers pass as the second argument of setFieldTouched
TouchedInputs == {Bool(TRUE), Bool(FALSE), Undefined, Str("yes"), Null}

\* setFieldTouched(f, value)
SetFieldTouchedWith(f, value) ==
    LET r == setFieldTouched(__touched, f, value)
    IN /\ __touched' = r.touched
       /\ UNCHANGED <<heap, config, caller, __initialValues, values, __errors,
                      __isSubmitting, __isValidating, calls, pending>>
       /\ last' = IF r.completion = Normal THEN Quiet
                  ELSE [Quiet EXCEPT !.op = "setFieldTouched",
                                     !.result = Settle(r.completion)]

SetFieldTouched(f) == \E value \in TouchedInputs : SetFieldTouchedWith(f, value)

\* setInitialValues(lit), the caller keeping the object it passed
SetInitialValuesWith(lit) ==
    LET o == MakeObject(heap, lit)
        n == clone(o.heap, o.ref, Undefined)
    IN /\ UNCHANGED <<config, __errors, __touched, __isSubmitting, __isValidating, pending>>
       /\ last' = Quiet
       /\ Commit(n.heap, o.ref, n.ref, values, calls)

\* setInitialValues given an object with the keys the form was created with,
\* as its parameter type T asks
SetInitialValues ==
    \E lit \in {l \in InitialValuesInputs : DOMAIN l = config.fields} :
        SetInitialValuesWith(lit)

\* setInitialValues given an object with more keys (optional fields of T, or
\* a caller that is not type-checked)
OtherInitialValuesInputs ==
    {[name |-> Str("ab")], [name |-> Str(""), tags |-> ArrLit(<<>>)]}

SetInitialValuesOther == \E lit \in OtherInitialValuesInputs : SetInitialValuesWith(lit)

\* setFieldValue(f, v, shouldValidateField)
SetFieldValueWith(f, v, shouldValidateField) ==
    LET n == setFieldValue(heap, values, f, v)
    IN /\ IF shouldValidateField /\ config.validationSchema # "none"
          THEN \E o \in ValidateAtOutcomes(n.heap, Props(n.heap, n.ref), f) :
               \E r \in {validateFieldSync(__errors, f, o)} :
                   /\ __errors' = r.errors
                   /\ last' = [Quiet EXCEPT !.op = "validateFieldSync",
                                            !.via = "setFieldValue",
                                            !.field = f, !.outcome = o,
                                            !.result = Settle(r.completion)]
          ELSE /\ __errors' = __errors
               /\ last' = Quiet
       /\ UNCHANGED <<config, __touched, __isSubmitting, __isValidating, pending>>
       /\ Commit(n.heap, caller, __initialValues, n.ref, calls)

SetFieldValue(f) ==
    \E shouldValidateField \in BOOLEAN, v \in ValueInputs(f) :
        SetFieldValueWith(f, v, shouldValidateField)

\* reset() that also clears the errors
Reset_clearsErrors ==
    LET n == reset(heap, __initialValues)
    IN /\ __errors' = clearErrors(heap, __initialValues)
       /\ UNCHANGED <<config, __touched, __isSubmitting, __isValidating, pending>>
       /\ last' = Quiet
       /\ Commit(n.heap, caller, __initialValues, n.ref, calls)

Reset ==
    LET n == reset(heap, __initialValues)
    IN /\ UNCHANGED <<config, __errors, __touched, __isSubmitting, __isValidating, pending>>
       /\ last' = Quiet
       /\ Commit(n.heap, caller, __initialValues, n.ref, calls)

-----------------------------------------------------------------------------
(* What the surrounding program does to the objects it holds *)

\* the caller reassigns a field of the object it passed: initialValues.name = v
CallerAssign ==
    \E f \in DOMAIN Props(heap, caller) :
      \E v \in {x \in ValueInputs(f) : ~IsLit(x)} :
        /\ v # Props(heap, caller)[f]
        /\ UNCHANGED <<config, __errors, __touched, __isSubmitting, __isValidating, pending>>
        /\ last' = Quiet
        /\ Commit([heap EXCEPT ![caller].props[f] = v], caller, __initialValues, values, calls)

\* the caller pushes onto an array of the object it passed: initialValues.tags.push(y)
CallerPush ==
    \E f \in DOMAIN Props(heap, caller) :
        LET v == Props(heap, caller)[f]
        IN /\ IsRef(v)
           /\ IsArr(heap[v.ref])
           /\ Len(heap[v.ref].elems) < MaxElems
           /\ UNCHANGED <<config, __errors, __touched, __isSubmitting, __isValidating, pending>>
           /\ last' = Quiet
           /\ Commit([heap EXCEPT ![v.ref].elems = Append(@, Str("y"))],
                     caller, __initialValues, values, calls)

\* the caller writes a property of an object held by the object it passed:
\* initialValues.pet.kind = 'cat'
CallerPatch ==
    \E f \in DOMAIN Props(heap, caller) :
        LET v == Props(heap, caller)[f]
        IN /\ IsRef(v)
           /\ IsObj(heap[v.ref])
           /\ heap[v.ref].props["kind"] # Str("cat")
           /\ UNCHANGED <<config, __errors, __touched, __isSubmitting, __isValidating, pending>>
           /\ last' = Quiet
           /\ Commit([heap EXCEPT ![v.ref].props["kind"] = Str("cat")],
                     caller, __initialValues, values, calls)

\* a two-way binding writes a field of the values object in place and sets
\* the store to that same object: $values.name = v
BindingWrite ==
    \E f \in DOMAIN Props(heap, values) :
      \E v \in {x \in ValueInputs(f) : ~IsLit(x)} :
        /\ v # Props(heap, values)[f]
        /\ UNCHANGED <<config, __errors, __touched, __isSubmitting, __isValidating, pending>>
        /\ last' = Quiet
        /\ Commit([heap EXCEPT ![values].props[f] = v], caller, __initialValues, values, calls)

-----------------------------------------------------------------------------
(* index.ts: validateField, validateFieldSync *)

\* validateField without its catch clause
validateField_noCatch(errors, field, outcome) ==
    IF outcome = Pass
    THEN [errors |-> setFieldError(errors, field, Null), completion |-> Normal]
    ELSE [errors |-> errors, completion |-> outcome]

\* the body of validateField once validateAt has passed or thrown
validateField(errors, field, outcome) ==
    IF outcome = Pass
    THEN [errors |-> setFieldError(errors, field, Null), completion |-> Normal]
    ELSE setYupValidationErrors(errors, outcome.threw)

IdleSlots == {s \in Slots : pending[s].pc = "idle"}

ValidateField(f) ==
    \E o \in ValidateAtOutcomes(heap, Props(heap, values), f) :
        /\ IdleSlots # {}
        /\ LET s == CHOOSE x \in IdleSlots : \A y \in IdleSlots : x <= y
           IN pending' = [pending EXCEPT ![s] = [pc |-> "validateAt", field |-> f, outcome |-> o]]
        /\ UNCHANGED <<heap, config, caller, __initialValues, values, __errors, __touched,
                       __isSubmitting, __isValidating, calls>>
        /\ last' = Quiet

ValidateFieldSettle(s) ==
    /\ pending[s].pc = "validateAt"
    /\ LET r == validateField(__errors, pending[s].field, pending[s].outcome)
       IN /\ __errors' = r.errors
          /\ last' = [Quiet EXCEPT !.op = "validateField",
                                   !.field = pending[s].field,
                                   !.outcome = pending[s].outcome,
                                   !.result = Settle(r.completion)]
    /\ pending' = [pending EXCEPT ![s] = [pc |-> "idle"]]
    /\ UNCHANGED <<heap, config, caller, __initialValues, values, __touched,
                   __isSubmitting, __isValidating, calls>>

ValidateFieldSync(f) ==
    \E o \in ValidateAtOutcomes(heap, Props(heap, values), f) :
        LET r == validateFieldSync(__errors, f, o)
        IN /\ __errors' = r.errors
           /\ last' = [Quiet EXCEPT !.op = "validateFieldSync",
                                    !.field = f, !.outcome = o,
                                    !.result = Settle(r.completion)]
           /\ UNCHANGED <<heap, config, caller, __initialValues, values, __touched,
                          __isSubmitting, __isValidating, calls, pending>>

-----------------------------------------------------------------------------
(* index.ts: handleBlur, handleFocus *)

\* config.validateOnBlur and its like: optional, unset when absent
Option(name) == name \in DOMAIN config /\ config[name]

\* validateField(field) called and not awaited: it runs to its await and stays
\* pending, in the first free slot
startValidateField(pend, field, outcome) ==
    LET idle == {s \in Slots : pend[s].pc = "idle"}
        s == CHOOSE x \in idle : \A y \in idle : x <= y
    IN [pend EXCEPT ![s] = [pc |-> "validateAt", field |-> field, outcome |-> outcome]]

\* handleBlur validating whatever the configuration says
handleBlur_alwaysValidates(touched, pend, name, validateOnBlur, outcome) ==
    [touched |-> setFieldTouched(touched, name, Undefined).touched,
     pending |-> startValidateField(pend, name, outcome)]

\* handleBlur: setFieldTouched(name); if (config.validateOnBlur) validateField(name)
handleBlur(touched, pend, name, validateOnBlur, outcome) ==
    [touched |-> setFieldTouched(touched, name, Undefined).touched,
     pending |-> IF validateOnBlur THEN startValidateField(pend, name, outcome) ELSE pend]

\* handleFocus: setFieldTouched(name); if (config.validateOnFocus) validateField(name)
handleFocus(touched, pend, name, validateOnFocus, outcome) ==
    [touched |-> setFieldTouched(touched, name, Undefined).touched,
     pending |-> IF validateOnFocus THEN startValidateField(pend, name, outcome) ELSE pend]

\* handleBlur(event), event.target.name = f
HandleBlur(f) ==
    /\ Option("validateOnBlur") => IdleSlots # {}
    /\ \E o \in ValidateAtOutcomes(heap, Props(heap, values), f) :
       \E r \in {handleBlur(__touched, pending, f, Option("validateOnBlur"), o)} :
           /\ __touched' = r.touched
           /\ pending' = r.pending
    /\ last' = [Quiet EXCEPT !.op = "handleBlur", !.field = f]
    /\ UNCHANGED <<heap, config, caller, __initialValues, values, __errors,
                   __isSubmitting, __isValidating, calls>>

\* handleFocus(event), event.target.name = f
HandleFocus(f) ==
    /\ Option("validateOnFocus") => IdleSlots # {}
    /\ \E o \in ValidateAtOutcomes(heap, Props(heap, values), f) :
       \E r \in {handleFocus(__touched, pending, f, Option("validateOnFocus"), o)} :
           /\ __touched' = r.touched
           /\ pending' = r.pending
    /\ last' = [Quiet EXCEPT !.op = "handleFocus", !.field = f]
    /\ UNCHANGED <<heap, config, caller, __initialValues, values, __errors,
                   __isSubmitting, __isValidating, calls>>

-----------------------------------------------------------------------------
(* index.ts: getInputValue, handleChange, handleInput *)

Num(n) == [num |-> n]
NaN == [nan |-> TRUE]

\* +value, on the raw values the inputs of the model deliver
ToNumber(v) ==
    CASE v = Str("")   -> Num(0)
      [] v = Str("12") -> Num(12)
      [] v = Null      -> Num(0)
      [] OTHER         -> NaN

\* a file of a file input's `files`
TextFile(name) == [name |-> name, size |-> 8, type |-> "text/plain"]

\* event.target: inputs of several types with the text typed into them, an
\* element whose value is null, one whose value is an object, and file inputs
\* with the files selected (their `value`, if any, is the browser's fake path)
InputElements ==
    [type : {"text", "number", "range"}, value : {Str(""), Str("ab"), Str("12")}]
        \cup {[type |-> "boo", value |-> Null],
              [type |-> "whateva", value |-> ObjLit([kind |-> Str("dog")])],
              [type |-> "file", files |-> <<TextFile("file1.txt"), TextFile("file2.txt")>>],
              [type |-> "file", files |-> <<TextFile("file1.txt")>>,
               value |-> Str("C:/fakepath/file1.txt")]}

\* getInputValue(inputElement)
getInputValue(inputElement) ==
    IF inputElement.type \in {"number", "range"}
    THEN ToNumber(Get(inputElement, "value"))
    ELSE Get(inputElement, "value")

\* handleChange passing no shouldValidateField
HandleChangeWith_neverValidates(f, el) == SetFieldValueWith(f, getInputValue(el), FALSE)

\* handleChange(event), event.target = el with el.name = f
HandleChangeWith(f, el) ==
    SetFieldValueWith(f, getInputValue(el), Option("validateOnChange"))

HandleChange(f) == \E el \in InputElements : HandleChangeWith(f, el)

\* handleInput(event), event.target = el with el.name = f
HandleInputWith(f, el) ==
    SetFieldValueWith(f, getInputValue(el), Option("validateOnInput"))

HandleInput(f) == \E el \in InputElements : HandleInputWith(f, el)

-----------------------------------------------------------------------------
(* index.ts: handleSubmit *)

Return == [return |-> TRUE]

\* the stores handleSubmit writes, as one value, so that its statements compose
Stores == [errors |-> __errors, isSubmitting |-> __isSubmitting,
           isValidating |-> __isValidating]

SetStores(s) ==
    /\ __errors' = s.errors
    /\ __isSubmitting' = s.isSubmitting
    /\ __isValidating' = s.isValidating

\* the start of handleSubmit without __isSubmitting.set(true)
submitBegin_notSubmitting(s, h, iv) == [s EXCEPT !.errors = clearErrors(h, iv)]

\* the start of handleSubmit without clearErrors()
submitBegin_keepsErrors(s, h, iv) == [s EXCEPT !.isSubmitting = TRUE]

\* clearErrors(); __isSubmitting.set(true)
submitBegin(s, h, iv) == [s EXCEPT !.errors = clearErrors(h, iv), !.isSubmitting = TRUE]

\* __isValidating.set(true), the first statement of the inner try
validateBegin(s) == [s EXCEPT !.isValidating = TRUE]

\* the reducer keeping the first message of a path: { [path]: message, ...acc }
RECURSIVE reduceInner_firstWins(_, _)
reduceInner_firstWins(inner, acc) ==
    IF inner = <<>> THEN acc
    ELSE reduceInner_firstWins(Tail(inner),
             IF Head(inner).path \in DOMAIN acc THEN acc
             ELSE Spread(acc, Head(inner).path, Str(Head(inner).message)))

\* error.inner.reduce((acc, { message, path }) => ({ ...acc, [path]: message }), {})
RECURSIVE reduceInner(_, _)
reduceInner(inner, acc) ==
    IF inner = <<>> THEN acc
    ELSE reduceInner(Tail(inner), Spread(acc, Head(inner).path, Str(Head(inner).message)))

\* the catch clause without its `return`: falls through to onSubmit
validateCatch_fallsThrough(s, error) ==
    IF "inner" \in DOMAIN error
    THEN [stores |-> [s EXCEPT !.errors = reduceInner(error.inner, NoProps)],
          completion |-> Normal]
    ELSE [stores |-> s, completion |-> Threw(error)]

\* the catch clause without its `throw error`: swallows every exception
validateCatch_swallows(s, error) ==
    IF "inner" \in DOMAIN error
    THEN [stores |-> [s EXCEPT !.errors = reduceInner(error.inner, NoProps)],
          completion |-> Return]
    ELSE [stores |-> s, completion |-> Return]

\* the catch clause of the inner try
validateCatch(s, error) ==
    IF "inner" \in DOMAIN error
    THEN [stores |-> [s EXCEPT !.errors = reduceInner(error.inner, NoProps)],
          completion |-> Return]
    ELSE [stores |-> s, completion |-> Threw(error)]

\* the inner try without its finally clause
validateFinally_missing(s) == s

\* the finally clause of the inner try
validateFinally(s) == [s EXCEPT !.isValidating = FALSE]

\* the outer try without its finally clause
submitFinally_missing(s) == s

\* the finally clause of the outer try
submitFinally(s) == [s EXCEPT !.isSubmitting = FALSE]

\* the inner try statement from the moment the awaited validate settles
validateSettled(s, outcome) ==
    LET c == IF outcome = Pass THEN [stores |-> s, completion |-> Normal]
             ELSE validateCatch(s, outcome.threw)
    IN [stores |-> validateFinally(c.stores), completion |-> c.completion]

\* onSubmit given a fresh get(values) instead of currentValues
onSubmitValues_reread(call, vs) == vs

\* the first argument of config.onSubmit(currentValues, helpers)
onSubmitValues(call, vs) == call.currentValues

\* the ValidationErrors a caller's own schema throws from validate: one made
\* from a message alone, whose `inner` is empty, and one with a nested failure
BareValidationErrors ==
    { [errors |-> <<"invalid">>, inner |-> <<>>],
      [errors |-> <<"invalid">>, inner |-> <<[path |-> "name", message |-> "invalid"]>>] }

\* what schema.validate does with the values it is given
ValidateOutcomes(h, p) ==
    IF config.validationSchema = "custom"
    THEN {Pass} \cup {Threw(e) : e \in BareValidationErrors}
    ELSE {validate(h, p)} \cup {Threw(e) : e \in OtherErrors}

\* what onSubmit does in the end: completes or throws
OnSubmitOutcomes == {Pass} \cup {Threw(e) : e \in OtherErrors}

IdleCalls == {c \in Calls : calls[c].pc = "idle"}

\* handleSubmit(event) from its call to its first await (or to its end, when
\* config.onSubmit is no function)
HandleSubmit ==
    /\ IdleCalls # {}
    /\ LET c == CHOOSE x \in IdleCalls : \A y \in IdleCalls : x <= y
       IN IF ~config.onSubmit
          THEN /\ SetStores(submitFinally(Stores))
               /\ last' = [Quiet EXCEPT !.op = "handleSubmit", !.via = "guard",
                                        !.result = Resolved]
               /\ UNCHANGED <<heap, caller, __initialValues, values, calls>>
          ELSE LET s1 == submitBegin(Stores, heap, __initialValues)
               IN IF config.validationSchema # "none"
                  THEN LET s2 == validateBegin(s1)
                       IN \E o \in ValidateOutcomes(heap, Props(heap, values)) :
                            /\ SetStores(s2)
                            /\ last' = Quiet
                            /\ Commit(heap, caller, __initialValues, values,
                                      [calls EXCEPT ![c] = [pc |-> "validating",
                                                            currentValues |-> values,
                                                            outcome |-> o,
                                                            invoked |-> 0,
                                                            arg |-> NoRef]])
                  ELSE LET call == [pc |-> "submitting", currentValues |-> values,
                                    outcome |-> None, invoked |-> 1, arg |-> NoRef]
                       IN /\ SetStores(s1)
                          /\ last' = Quiet
                          /\ Commit(heap, caller, __initialValues, values,
                                    [calls EXCEPT ![c] =
                                        [call EXCEPT !.arg = onSubmitValues(call, values)]])
    /\ UNCHANGED <<config, __touched, pending>>

\* the awaited validate settles: handleSubmit resumes up to its next await or
\* to its end
ValidateSettle(c) ==
    /\ calls[c].pc = "validating"
    /\ LET r == validateSettled(Stores, calls[c].outcome)
       IN IF r.completion = Normal
          THEN /\ SetStores(r.stores)
               /\ last' = Quiet
               /\ Commit(heap, caller, __initialValues, values,
                         [calls EXCEPT ![c] = [@ EXCEPT !.pc = "submitting",
                                                        !.invoked = @ + 1,
                                                        !.arg = onSubmitValues(calls[c], values)]])
          ELSE LET f == submitFinally(r.stores)
               IN /\ SetStores(f)
                  /\ last' = [Quiet EXCEPT !.op = "handleSubmit", !.via = "validate",
                                           !.outcome = calls[c].outcome,
                                           !.invoked = calls[c].invoked,
                                           !.result = Settle(r.completion)]
                  /\ Commit(heap, caller, __initialValues, values,
                            [calls EXCEPT ![c] = Idle])
    /\ UNCHANGED <<config, __touched, pending>>

\* onSubmit, while it runs, uses the helpers it was given
HelperSetFieldError(c, f) ==
    /\ calls[c].pc = "submitting"
    /\ \E m \in {Str(x) : x \in Messages} :
        /\ __errors' = setFieldError(__errors, f, m)
        /\ last' = [Quiet EXCEPT !.op = "helpers.setFieldError", !.field = f,
                                 !.outcome = m]
    /\ UNCHANGED <<heap, config, caller, __initialValues, values, __touched,
                   __isSubmitting, __isValidating, calls, pending>>

\* the awaited onSubmit settles: handleSubmit runs to its end
OnSubmitSettle(c) ==
    /\ calls[c].pc = "submitting"
    /\ \E o \in OnSubmitOutcomes :
        LET f == submitFinally(Stores)
        IN /\ SetStores(f)
           /\ last' = [Quiet EXCEPT !.op = "handleSubmit", !.via = "onSubmit",
                                    !.outcome = o,
                                    !.invoked = calls[c].invoked,
                                    !.result = Settle(o)]
           /\ Commit(heap, caller, __initialValues, values, [calls EXCEPT ![c] = Idle])
    /\ UNCHANGED <<config, __touched, pending>>

\* no handleSubmit call is in flight
AllIdle == \A c \in Calls : calls[c].pc = "idle"

-----------------------------------------------------------------------------
(* Specifications *)

\* the stores under the synchronous operations, the caller's own writes and
\* the writes of bindings
Next ==
    \/ ClearErrors
    \/ \E f \in config.fields : SetFieldError(f)
    \/ \E f \in config.fields : SetFieldTouched(f)
    \/ SetInitialValues
    \/ \E f \in config.fields : SetFieldValue(f)
    \/ Reset
    \/ CallerAssign
    \/ CallerPush
    \/ CallerPatch
    \/ BindingWrite

Spec == Init /\ [][Next]_vars

\* A form created with the single field `name`, its initial values replaced
\* by objects of the same and of more keys, under the operations that write
\* the errors and touched stores and with submissions in flight.
KeysInit == InitWith({[name |-> Str("")]}, Configs)

KeysNext ==
    \/ SetInitialValuesOther
    \/ ClearErrors
    \/ SetFieldError("name")
    \/ SetFieldTouched("name")
    \/ Reset
    \/ HandleSubmit
    \/ \E c \in Calls : ValidateSettle(c)
    \/ \E c \in Calls : OnSubmitSettle(c)

KeysSpec == KeysInit /\ [][KeysNext]_vars

\* Every call of newForm, those that throw included, and what the form does
\* once it exists.
CreateInit == \E cfg \in NewFormInputs : NewForm(cfg)

CreateNext ==
    /\ Created
    /\ \/ \E f \in config.fields : SetFieldValue(f)
       \/ \E f \in config.fields : SetFieldError(f)
       \/ \E f \in config.fields : SetFieldTouched(f)
       \/ ClearErrors
       \/ Reset

CreateSpec == CreateInit /\ [][CreateNext]_vars

\* One submission at a time, nothing else happening while it is in flight;
\* between submissions messages are set and the field is written.
SoloInit ==
    InitWith({[name |-> Str("")], [name |-> Str("ab"), tags |-> ArrLit(<<Str("x")>>)]},
             Configs)

SoloNext ==
    \/ AllIdle /\ HandleSubmit
    \/ \E c \in Calls : ValidateSettle(c)
    \/ \E c \in Calls : OnSubmitSettle(c)
    \/ AllIdle /\ \E f \in config.fields : SetFieldError(f)
    \/ AllIdle /\ SetFieldValue("name")

SoloSpec == SoloInit /\ [][SoloNext]_vars

\* The event handlers under every setting of the validateOn* options, with
\* and without a schema, the validations they start settling later.
HandlersInit ==
    InitWith({[name |-> Str("")], [name |-> Str("ab"), tags |-> ArrLit(<<>>)]},
             [onSubmit : {TRUE}, validationSchema : {"none", "yup"},
              validateOnBlur : BOOLEAN, validateOnFocus : BOOLEAN])

HandlersNext ==
    \/ HandleBlur("name")
    \/ HandleFocus("name")
    \/ ValidateField("name")
    \/ \E s \in Slots : ValidateFieldSettle(s)
    \/ SetFieldValue("name")
    \/ \E f \in config.fields : SetFieldError(f)

HandlersSpec == HandlersInit /\ [][HandlersNext]_vars

\* What is typed into inputs and selected in them reaching the form through
\* handleChange and handleInput, under every setting of validateOnChange and
\* validateOnInput, with and without a schema.
InputsInit ==
    InitWith({[name |-> Str("")], [name |-> Str("ab"), tags |-> ArrLit(<<>>)]},
             [onSubmit : {TRUE}, validationSchema : {"none", "yup"},
              validateOnChange : BOOLEAN, validateOnInput : BOOLEAN])

InputsNext ==
    \/ HandleChange("name")
    \/ HandleInput("name")
    \/ \E f \in config.fields : SetFieldError(f)

InputsSpec == InputsInit /\ [][InputsNext]_vars

\* Single-field validation on forms without a schema and on forms whose schema
\* is the caller's own and throws values that are not yup's ValidationError,
\* with messages set by hand in between.
CustomInit ==
    InitWith({[name |-> Str("")], [name |-> Str(""), tags |-> ArrLit(<<>>)]},
             [onSubmit : {TRUE}, validationSchema : {"none", "custom"}])

CustomNext ==
    \/ ValidateField("name")
    \/ \E s \in Slots : ValidateFieldSettle(s)
    \/ ValidateFieldSync("name")
    \/ \E f \in config.fields : SetFieldError(f)
    \/ SetFieldValue("name")
    \/ SetFieldTouched("name")

CustomSpec == CustomInit /\ [][CustomNext]_vars

\* the objects clone is given: fields holding a string, an array, a plain
\* object and a Date
CloneInputs ==
    {[name |-> Str(n), tags |-> ArrLit(t)] : n \in {"", "ab"}, t \in {<<>>, <<Str("x")>>}}
        \cup {[name |-> Str(n), pet |-> ObjLit([kind |-> Str("dog")])] : n \in {"", "ab"}}
        \cup {[name |-> Str(n), born |-> DateLit(t)] : n \in {"", "ab"}, t \in {0, 1}}

\* clone applied by newForm, setInitialValues and clearErrors to each of these
\* objects, the caller then writing to the object it passed
CloneInit == InitWith(CloneInputs, {c \in Configs : c.onSubmit})

CloneNext ==
    \/ \E lit \in CloneInputs : SetInitialValuesWith(lit)
    \/ ClearErrors
    \/ \E f \in config.fields : SetFieldError(f)
    \/ CallerAssign
    \/ CallerPush
    \/ CallerPatch

CloneSpec == CloneInit /\ [][CloneNext]_vars

\* Submission on the same forms: the caller's own schema resolves or throws a
\* ValidationError it made itself, with messages set by hand in between.
CustomSubmitNext ==
    \/ HandleSubmit
    \/ \E c \in Calls : ValidateSettle(c)
    \/ \E c \in Calls : OnSubmitSettle(c)
    \/ \E f \in config.fields : SetFieldError(f)

CustomSubmitSpec == CustomInit /\ [][CustomSubmitNext]_vars

\* The submit and validation life cycle, with overlapping calls and with the
\* value of one field changing under them.  Two forms: one of a single field,
\* one whose second field fails the schema throughout.
SubmitInit ==
    InitWith({[name |-> Str("")], [name |-> Str(""), tags |-> ArrLit(<<>>)]}, Configs)

SubmitNext ==
    \/ HandleSubmit
    \/ \E c \in Calls : ValidateSettle(c)
    \/ \E c \in Calls : HelperSetFieldError(c, "name")
    \/ \E c \in Calls : OnSubmitSettle(c)
    \/ ValidateField("name")
    \/ \E s \in Slots : ValidateFieldSettle(s)
    \/ ValidateFieldSync("name")
    \/ SetFieldValue("name")

SubmitSpec == SubmitInit /\ [][SubmitNext]_vars

\* The submit life cycle on a single-field and a two-field form, with a field written and
\* touched and the form reset while calls are in flight, and with every
\* pending validate and onSubmit settling eventually: the schema's validate
\* and the caller's onSubmit terminate.
FairSubmitInit ==
    InitWith({[name |-> Str("")], [name |-> Str(""), tags |-> ArrLit(<<Str("x")>>)]}, Configs)

FairSubmitNext ==
    \/ HandleSubmit
    \/ \E c \in Calls : ValidateSettle(c)
    \/ \E c \in Calls : HelperSetFieldError(c, "name")
    \/ \E c \in Calls : OnSubmitSettle(c)
    \/ SetFieldValue("name")
    \/ SetFieldTouched("name")
    \/ Reset

\* The awaited validate and the awaited onSubmit of call c settle, and the
\* event loop then resumes the call: weak fairness of the two settling steps.
FairSettle(c) == WF_vars(ValidateSettle(c)) /\ WF_vars(OnSubmitSettle(c))

FairSubmitSpec ==
    /\ FairSubmitInit
    /\ [][FairSubmitNext]_vars
    /\ \A c \in Calls : FairSettle(c)

-----------------------------------------------------------------------------
(* Properties *)

IsValidationFailure(o) == IsThrow(o) /\ "inner" \in DOMAIN o.threw
IsOtherThrow(o) == IsThrow(o) /\ "inner" \notin DOMAIN o.threw
HasSchema == config.validationSchema # "none"
Submitted(c) == calls[c].pc = "submitting"
Validating(c) == calls[c].pc = "validating"

\* C1: a handleSubmit call whose whole-object validation fails never invokes
\* onSubmit: a call that is running onSubmit under a schema had its validation
\* pass, and a call that ends after a validation failure has invoked onSubmit
\* zero times.
C1_FailedValidationNeverSubmits ==
    /\ \A c \in Calls : Submitted(c) /\ HasSchema => calls[c].outcome = Pass
    /\ \A c \in Calls : Validating(c) => calls[c].invoked = 0
    /\ last.op = "handleSubmit" /\ last.via = "validate" => last.invoked = 0

C1_Witness ==
    /\ last.op = "handleSubmit"
    /\ last.via = "validate"
    /\ IsValidationFailure(last.outcome)
    /\ last.invoked = 0
    /\ \A c \in Calls : ~Submitted(c)

\* C2: whenever no handleSubmit call is in flight - in particular right after
\* a call has ended, on whichever path - isSubmitting is false; and, validate
\* and onSubmit settling eventually, every call that is in flight ends.
C2_SubmittingEndsFalse ==
    /\ [](AllIdle => ~__isSubmitting)
    /\ \A c \in Calls : (calls[c].pc # "idle") ~> (calls[c].pc = "idle")

C2_Witness ==
    /\ last.op = "handleSubmit"
    /\ last.via = "onSubmit"
    /\ IsThrow(last.outcome)
    /\ AllIdle
    /\ ~__isSubmitting

\* C3: with a schema, isValidating is true when a call's validation has
\* started, false when that validation has settled (pass, failure or other
\* exception) and false when onSubmit is invoked; without a schema it is
\* never true.
C3_ValidatingBrackets ==
    /\ [](~HasSchema => ~__isValidating)
    /\ [][\A c \in Calls :
            /\ (~Validating(c) /\ Validating(c)' => __isValidating')
            /\ (Validating(c) /\ ~Validating(c)' => ~__isValidating')
            /\ (~Submitted(c) /\ Submitted(c)' => ~__isValidating')]_vars

C3_Witness ==
    /\ HasSchema
    /\ \E c \in Calls : Submitted(c) /\ calls[c].outcome = Pass
    /\ \E c \in Calls : Validating(c)
    /\ ~__isValidating

\* C4: a call whose validation passes, or that runs without a schema,
\* invokes onSubmit exactly once, with the object that was in the values
\* store when handleSubmit was called; a helpers.setFieldError(f, m) made by
\* onSubmit writes the form's errors store, and the end of the call leaves
\* that store as onSubmit left it.
C4_OnSubmitInvokedOnce ==
    /\ [](\A c \in Calls : Submitted(c) =>
            calls[c].invoked = 1 /\ calls[c].arg = calls[c].currentValues)
    /\ [](last.op = "handleSubmit" /\ last.via = "onSubmit" => last.invoked = 1)
    /\ [](last.op = "helpers.setFieldError" =>
            last.field \in DOMAIN __errors /\ __errors[last.field] = last.outcome)
    /\ [][\A c \in Calls :
            /\ (calls[c].pc = "idle" /\ calls'[c].pc # "idle" =>
                    calls'[c].currentValues = values')
            /\ (calls[c].pc = "idle" /\ calls'[c].pc # "idle" /\ ~HasSchema =>
                    Submitted(c)')
            /\ (Validating(c) /\ calls[c].outcome = Pass /\ ~Validating(c)' =>
                    Submitted(c)')
            /\ (Submitted(c) /\ ~Submitted(c)' => __errors' = __errors)]_vars

C4_Witness ==
    /\ last.op = "handleSubmit"
    /\ last.via = "onSubmit"
    /\ last.outcome = Pass
    /\ last.invoked = 1
    /\ HasSchema
    /\ "name" \in DOMAIN __errors
    /\ __errors["name"] = Str("taken")

\* the map the claim describes: each path to the message of its last failure
LastIndex(inner, path) ==
    CHOOSE i \in DOMAIN inner :
        inner[i].path = path /\ \A j \in DOMAIN inner : inner[j].path = path => j <= i

LastWins(inner) ==
    [p \in {inner[i].path : i \in DOMAIN inner} |-> Str(inner[LastIndex(inner, p)].message)]

\* C5: when a call has ended on a validation failure, the errors store is the
\* map of the failures' paths to their messages, the last failure of a path
\* winning.
C5_ErrorsAreLastWinsMap ==
    last.op = "handleSubmit" /\ last.via = "validate" /\ IsValidationFailure(last.outcome)
        => __errors = LastWins(last.outcome.threw.inner)

C5_Witness ==
    /\ last.op = "handleSubmit"
    /\ last.via = "validate"
    /\ IsValidationFailure(last.outcome)
    /\ Len(last.outcome.threw.inner) = 3
    /\ __errors = [name |-> Str("short"), tags |-> Str("empty")]

\* C6: what onSubmit throws, and what validate throws that is no validation
\* error, rejects handleSubmit's promise with that same value, and
\* isSubmitting is false by then.
C6_OtherExceptionsPropagate ==
    /\ last.op = "handleSubmit" /\ last.via \in {"validate", "onSubmit"}
            /\ IsOtherThrow(last.outcome)
        => last.result = Rejected(last.outcome.threw) /\ ~__isSubmitting
    /\ last.op = "handleSubmit" /\ last.result # Resolved
        => IsOtherThrow(last.outcome) /\ last.result = Rejected(last.outcome.threw)

C6_Witness ==
    /\ last.op = "handleSubmit"
    /\ last.via = "validate"
    /\ last.result = Rejected([message |-> "boom"])
    /\ ~__isSubmitting

IsFieldFailure(o) ==
    IsThrow(o) /\ "path" \in DOMAIN o.threw /\ "errors" \in DOMAIN o.threw

\* C7: a validation failure never reaches the caller: handleSubmit resolves
\* after a whole-object failure, validateField resolves and validateFieldSync
\* returns after a single-field failure, and the failure's message is in the
\* errors store.
C7_ValidationFailuresAbsorbed ==
    /\ last.op = "handleSubmit" /\ IsValidationFailure(last.outcome)
        => last.result = Resolved
    /\ last.op \in {"validateField", "validateFieldSync"} /\ IsFieldFailure(last.outcome)
        => /\ last.result = Resolved
           /\ __errors[last.outcome.threw.path] = Str(last.outcome.threw.errors[1])

C7_Witness ==
    /\ last.op = "validateField"
    /\ IsFieldFailure(last.outcome)
    /\ last.result = Resolved
    /\ __errors["name"] = Str("required")

\* the caller's own writes to the object it passed
CallerWrites == CallerAssign \/ CallerPush \/ CallerPatch

\* C8: a write by the caller to the object it passed to newForm or to
\* setInitialValues - a field reassigned, an array field pushed onto, a
\* property of an object field set - changes
\* neither what the initialValues store holds nor what the values store holds.
C8_InitialValuesNotAliased ==
    [][CallerWrites =>
          /\ Deep(heap', __initialValues') = Deep(heap, __initialValues)
          /\ Deep(heap', values') = Deep(heap, values)]_vars

HasPushed(h, ref) ==
    /\ "tags" \in DOMAIN Props(h, ref)
    /\ Str("y") \in Range(h[Props(h, ref)["tags"].ref].elems)

C8_Witness ==
    /\ HasPushed(heap, caller)
    /\ ~HasPushed(heap, __initialValues)
    /\ ~HasPushed(heap, values)
    /\ Props(heap, caller)["name"] # Props(heap, __initialValues)["name"]

\* C9: after reset() the values store holds an object equal to the
\* initial-values snapshot field by field but not that object itself, so that
\* a write in place to the values object leaves the initialValues store as it
\* was.
C9_ResetCopies ==
    [][/\ (Reset => /\ Deep(heap', values') = Deep(heap', __initialValues')
                    /\ values' # __initialValues')
       /\ (BindingWrite => Deep(heap', __initialValues') = Deep(heap, __initialValues))]_vars

\* C10: reset() leaves the errors, touched and initialValues stores and both
\* flags as they were.
C10_ResetFrame ==
    [][Reset =>
          /\ __errors' = __errors
          /\ __touched' = __touched
          /\ Deep(heap', __initialValues') = Deep(heap, __initialValues)
          /\ __isSubmitting' = __isSubmitting
          /\ __isValidating' = __isValidating]_vars

\* reset() has run (nothing else makes the two stores hold one object) and
\* an error, a touched field and a submission in flight are still there
C10_Witness ==
    /\ values = __initialValues
    /\ __errors["name"] = Str("taken")
    /\ __touched["name"] = Bool(TRUE)
    /\ __isSubmitting

-----------------------------------------------------------------------------
(* index.ts: the object newForm returns *)

\* the members of the returned form
FormInstance ==
    {"clearErrors", "errors", "handleBlur", "handleChange", "handleFocus",
     "handleInput", "handleSubmit", "initialValues", "isSubmitting", "isValidating",
     "reset", "setFieldError", "setFieldTouched", "setFieldValue", "setInitialValues",
     "touched", "values", "validateField", "validateFieldSync"}

\* form[k] read as a boolean store; undefined when the form has no member k
Flag(k) ==
    IF k \notin FormInstance THEN Undefined
    ELSE IF k = "isSubmitting" THEN Bool(__isSubmitting)
    ELSE Bool(__isValidating)

\* C11: the form has a member isDirty, and in every state it is true exactly
\* when the object of the values store differs by value from the object of
\* the initialValues store.
C11_IsDirtyDerived ==
    /\ "isDirty" \in FormInstance
    /\ Flag("isDirty") = Bool(Deep(heap, values) # Deep(heap, __initialValues))

\* what a field of an object is, with references followed
Field(h, ref, k) == DeepVal(h, Props(h, ref)[k])

\* C12: setFieldValue(f, v) without shouldValidateField makes values[f] equal
\* to v, leaves every other entry of values as it was and changes none of
\* errors, touched, initialValues, isSubmitting, isValidating.
C12_SetFieldValueFrame ==
    [][\A v \in ValueInputs("name") :
         SetFieldValueWith("name", v, FALSE) =>
            /\ DOMAIN Props(heap', values') = DOMAIN Props(heap, values) \cup {"name"}
            /\ Field(heap', values', "name") = v
            /\ \A k \in DOMAIN Props(heap, values) \ {"name"} :
                  Field(heap', values', k) = Field(heap, values, k)
            /\ __errors' = __errors
            /\ __touched' = __touched
            /\ Deep(heap', __initialValues') = Deep(heap, __initialValues)
            /\ __isSubmitting' = __isSubmitting
            /\ __isValidating' = __isValidating]_vars

\* name was set to a value the initial values do not have, the other entry
\* still there, with an error and a touched field in the stores and a
\* submission in flight
C12_Witness ==
    /\ "tags" \in DOMAIN Props(heap, values)
    /\ Field(heap, values, "name") = Str("ab")
    /\ Field(heap, __initialValues, "name") = Str("")
    /\ Field(heap, values, "tags") = ArrLit(<<Str("x")>>)
    /\ __errors["name"] = Str("taken")
    /\ __touched["name"] = Bool(TRUE)
    /\ __isSubmitting

\* C13: setFieldTouched(f, b) with a boolean b, or with b omitted (then true),
\* sets touched[f] to b and leaves the other entries as they were; with a value
\* that is no boolean it throws a TypeError and leaves the touched store as it
\* was.
C13_SetFieldTouchedGuard ==
    [][\A f \in config.fields, value \in TouchedInputs :
         SetFieldTouchedWith(f, value) =>
            IF value \in {Bool(TRUE), Bool(FALSE), Undefined}
            THEN /\ __touched'[f] = (IF value = Undefined THEN Bool(TRUE) ELSE value)
                 /\ DOMAIN __touched' = DOMAIN __touched \cup {f}
                 /\ \A k \in DOMAIN __touched \ {f} : __touched'[k] = __touched[k]
                 /\ last'.op # "setFieldTouched"
            ELSE /\ __touched' = __touched
                 /\ last'.op = "setFieldTouched"
                 /\ last'.result = Rejected(TypeError)]_vars

\* a call with a non-boolean has just thrown, one entry touched before it
\* and the other not
C13_Witness ==
    /\ last.op = "setFieldTouched"
    /\ last.result = Rejected(TypeError)
    /\ __touched["name"] = Bool(TRUE)
    /\ "tags" \in DOMAIN __touched
    /\ __touched["tags"] = Bool(FALSE)

\* C14: setInitialValues(v) makes the initialValues store hold an object equal
\* to v that is not v itself (nor shares v's arrays), and leaves the values,
\* errors and touched stores and both flags as they were.
C14_SetInitialValuesFrame ==
    [][\A lit \in OtherInitialValuesInputs \cup CloneInputs :
         SetInitialValuesWith(lit) =>
            /\ Deep(heap', __initialValues') = ObjLit(lit)
            /\ Deep(heap', caller') = ObjLit(lit)
            /\ __initialValues' # caller'
            /\ \A k \in DOMAIN lit :
                  IsRef(Props(heap', caller')[k]) =>
                      Props(heap', __initialValues')[k] # Props(heap', caller')[k]
            /\ Deep(heap', values') = Deep(heap, values)
            /\ __errors' = __errors
            /\ __touched' = __touched
            /\ __isSubmitting' = __isSubmitting
            /\ __isValidating' = __isValidating]_vars

\* C15: clearErrors() makes the errors store a map whose keys are exactly the
\* keys of the object the initialValues store holds now, each with null; keys
\* the errors store had beyond those are gone.
C15_ClearErrorsTemplate ==
    [][ClearErrors =>
          /\ DOMAIN __errors' = DOMAIN Props(heap, __initialValues)
          /\ \A k \in DOMAIN __errors' : __errors'[k] = Null]_vars

\* a form created with `name` alone whose errors store has the keys of the
\* initial values installed later
C15_Witness ==
    /\ config.fields = {"name"}
    /\ DOMAIN Props(heap, __initialValues) = {"name", "tags"}
    /\ DOMAIN Props(heap, values) = {"name"}
    /\ __errors = [name |-> Null, tags |-> Null]
    /\ AllIdle

\* C16: setFieldError(f, m) sets errors[f] to m and leaves the other entries
\* as they were; with no message errors[f] is undefined and f is still a key.
C16_SetFieldErrorEntry ==
    [][\A f \in config.fields, m \in ErrorInputs :
         SetFieldErrorWith(f, m) =>
            /\ f \in DOMAIN __errors'
            /\ __errors'[f] = m
            /\ DOMAIN __errors' = DOMAIN __errors \cup {f}
            /\ \A k \in DOMAIN __errors \ {f} : __errors'[k] = __errors[k]]_vars

\* a form without a schema: the message of `name` was set and then cleared by
\* a call without a message, the message of `tags` still there
C16_Witness ==
    /\ config.validationSchema = "none"
    /\ "tags" \in DOMAIN __errors
    /\ __errors["name"] = Undefined
    /\ __errors["tags"] = Str("taken")

\* what the schema says about field f of object p: noError when every test of
\* f passes, else the message of the first failing test
Verdict(h, p, f, noError) ==
    LET fs == FailuresAt(h, p, f)
    IN IF fs = <<>> THEN noError ELSE Str(fs[1].message)

\* C17: validateField(f) judges the values of the moment it is called; when it
\* settles, errors[f] is the first message if the schema rejected and null if
\* it accepted.  validateFieldSync(f) does the same within the call, writing
\* undefined for an accepted field.
C17_ValidateFieldVerdict ==
    [][HasSchema =>
        /\ ValidateField("name") =>
              \A s \in Slots :
                 (pending[s].pc = "idle" /\ pending'[s].pc = "validateAt"
                     /\ ~IsOtherThrow(pending'[s].outcome))
                 => \/ /\ pending'[s].outcome = Pass
                       /\ FailuresAt(heap, Props(heap, values), "name") = <<>>
                    \/ /\ IsFieldFailure(pending'[s].outcome)
                       /\ FirstMessage(pending'[s].outcome.threw)
                            = Verdict(heap, Props(heap, values), "name", Null)
        /\ \A s \in Slots :
              (ValidateFieldSettle(s) /\ ~IsOtherThrow(pending[s].outcome))
              => /\ last'.result = Resolved
                 /\ __errors'[pending[s].field] =
                       IF pending[s].outcome = Pass THEN Null
                       ELSE FirstMessage(pending[s].outcome.threw)
        /\ (ValidateFieldSync("name") /\ ~IsOtherThrow(last'.outcome))
              => /\ last'.result = Resolved
                 /\ __errors'["name"] =
                       Verdict(heap, Props(heap, values), "name", Undefined)]_vars

\* the field was written to a value the schema accepts and then validated:
\* the message is cleared
C17_Witness ==
    /\ HasSchema
    /\ last.op = "validateField"
    /\ last.outcome = Pass
    /\ Field(heap, values, "name") = Str("ab")
    /\ Field(heap, __initialValues, "name") = Str("")
    /\ __errors["name"] = Null

\* a caught value without `path`, or without a non-empty `errors` list
Malformed(e) ==
    \/ IsPrimitive(e)
    \/ "path" \notin DOMAIN e
    \/ "errors" \notin DOMAIN e
    \/ e.errors = <<>>

\* C18: when validateField or validateFieldSync catches a value without a
\* `path` or without a non-empty `errors` list - thrown by the schema, or by
\* the call on a missing schema - no store changes and the caller sees no
\* throw: validateField resolves, validateFieldSync returns.
C18_MalformedOnlyLogged ==
    [][/\ \A s \in Slots :
            (/\ ValidateFieldSettle(s)
             /\ IsThrow(pending[s].outcome)
             /\ Malformed(pending[s].outcome.threw))
            => /\ last'.result = Resolved
               /\ UNCHANGED <<heap, values, __initialValues, __errors, __touched,
                              __isSubmitting, __isValidating>>
       /\ (/\ ValidateFieldSync("name")
           /\ IsThrow(last'.outcome)
           /\ Malformed(last'.outcome.threw))
            => /\ last'.result = Resolved
               /\ UNCHANGED <<heap, values, __initialValues, __errors, __touched,
                              __isSubmitting, __isValidating>>]_vars

\* the config newForm received lacks an initialValues object
BadConfig(cfg) ==
    \/ cfg \in {Undefined, Null}
    \/ "initialValues" \notin DOMAIN cfg
    \/ ~IsLit(cfg.initialValues)

\* C19: a call of newForm without a config, or with a config whose
\* initialValues is missing or falsy, throws a TypeError and leaves no form
\* and no store behind; no other call throws; and a form that exists was
\* created from an initialValues object, the one the caller holds.
C19_NewFormGuards ==
    IF Created
    THEN /\ last.op # "newForm"
         /\ caller # NoRef
         /\ IsObj(heap[caller])
         /\ DOMAIN heap[caller].props = config.fields
         /\ DOMAIN Props(heap, values) = config.fields
    ELSE /\ BadConfig(config)
         /\ last.op = "newForm"
         /\ last.result = Rejected(TypeError)
         /\ __initialValues = NoRef
         /\ heap = EmptyHeap
         /\ __errors = NoProps
         /\ __touched = NoProps

\* newForm({ initialValues: '' }) has thrown
C19_Witness ==
    /\ ~Created
    /\ config # Undefined
    /\ config # Null
    /\ "initialValues" \in DOMAIN config
    /\ config.initialValues = Str("")
    /\ last.result = Rejected(TypeError)

\* C20: in every reachable state the keys of the errors store and the keys of
\* the touched store are among the keys the values store had at creation.
C20_KeysWithinCreation ==
    /\ DOMAIN __errors \subseteq config.fields
    /\ DOMAIN __touched \subseteq config.fields

\* C21: the key sets of the values store and of the initialValues store are
\* those of creation in every reachable state: no operation adds a key or
\* removes one.
C21_KeysFixedAtCreation ==
    /\ DOMAIN Props(heap, values) = config.fields
    /\ DOMAIN Props(heap, __initialValues) = config.fields

\* the stores as newForm leaves them, `caller` being config.initialValues
Seeded ==
    /\ Deep(heap, values) = Deep(heap, caller)
    /\ Deep(heap, __initialValues) = Deep(heap, caller)
    /\ DOMAIN Props(heap, values) = DOMAIN Props(heap, caller)
    /\ DOMAIN __errors = DOMAIN Props(heap, caller)
    /\ DOMAIN __touched = DOMAIN Props(heap, caller)
    /\ \A k \in DOMAIN __errors : __errors[k] = Null
    /\ \A k \in DOMAIN __touched : __touched[k] = Bool(FALSE)
    /\ ~__isSubmitting
    /\ ~__isValidating

\* C22: in the state newForm(config) returns in, the values and initialValues
\* stores equal config.initialValues field by field, every errors entry is
\* null and every touched entry false over exactly its keys, and isSubmitting
\* and isValidating are false.
C22_StoresAfterNewForm == Seeded /\ [][TRUE]_vars

\* the validations of field f that are pending in pend
PendingOn(pend, f) == {s \in Slots : pend[s].pc = "validateAt" /\ pend[s].field = f}

\* C23: handleBlur and handleFocus leave touched[name] true when they return;
\* they have started a validateField(name) iff validateOnBlur, validateOnFocus
\* is set, and that validation is still pending when they return, the errors
\* store being as it was: errors[name] is written by its later settling.
C23_TouchThenValidateLater ==
    [][/\ HandleBlur("name") =>
            /\ __touched'["name"] = Bool(TRUE)
            /\ \A k \in DOMAIN __touched \ {"name"} : __touched'[k] = __touched[k]
            /\ __errors' = __errors
            /\ IF Option("validateOnBlur")
               THEN \E s \in PendingOn(pending', "name") : pending[s].pc = "idle"
               ELSE pending' = pending
       /\ HandleFocus("name") =>
            /\ __touched'["name"] = Bool(TRUE)
            /\ \A k \in DOMAIN __touched \ {"name"} : __touched'[k] = __touched[k]
            /\ __errors' = __errors
            /\ IF Option("validateOnFocus")
               THEN \E s \in PendingOn(pending', "name") : pending[s].pc = "idle"
               ELSE pending' = pending]_vars

\* handleBlur has returned on a form that validates on blur: the field is
\* touched, its validation pending, and the message it will bring not yet in
\* the errors store
C23_Witness ==
    /\ last.op = "handleBlur"
    /\ Option("validateOnBlur")
    /\ ~Option("validateOnFocus")
    /\ __touched["name"] = Bool(TRUE)
    /\ PendingOn(pending, "name") # {}
    /\ \E s \in PendingOn(pending, "name") : IsFieldFailure(pending[s].outcome)
    /\ __errors["name"] = Null

\* what setFieldValue("name", v, flag) does in one step: values.name is v, the
\* other fields are as they were, and the errors store is untouched unless
\* flag is set and a schema configured; then validateFieldSync has run and
\* errors.name is the schema's verdict on the updated values (the schema
\* throwing something that is no validation error aside)
StoresThenValidates(v, flag) ==
    /\ Field(heap', values', "name") = v
    /\ \A k \in DOMAIN Props(heap, values) \ {"name"} :
          Field(heap', values', k) = Field(heap, values, k)
    /\ DOMAIN Props(heap', values') = DOMAIN Props(heap, values) \cup {"name"}
    /\ IF flag /\ HasSchema
       THEN /\ last'.op = "validateFieldSync"
            /\ __errors' =
                 IF IsOtherThrow(last'.outcome) THEN __errors
                 ELSE Spread(__errors, "name",
                             Verdict(heap', Props(heap', values'), "name", Undefined))
       ELSE /\ last' = Quiet
            /\ __errors' = __errors

\* C24: handleChange(e) and handleInput(e) act as setFieldValue(e.target.name,
\* getInputValue(e.target), validateOnChange / validateOnInput): the coerced
\* value is stored, and the field is validated synchronously, against the
\* values just stored, iff the option is set and a schema is configured.
C24_ChangeIsSetFieldValue ==
    [][\A el \in InputElements :
         /\ HandleChangeWith("name", el) =>
               StoresThenValidates(getInputValue(el), Option("validateOnChange"))
         /\ HandleInputWith("name", el) =>
               StoresThenValidates(getInputValue(el), Option("validateOnInput"))]_vars

\* a form validating on change but not on input, created with name 'ab': the
\* field was emptied and the message is that of the empty value
C24_Witness ==
    /\ HasSchema
    /\ Option("validateOnChange")
    /\ ~Option("validateOnInput")
    /\ Field(heap, __initialValues, "name") = Str("ab")
    /\ Field(heap, values, "name") = Str("")
    /\ __errors["name"] = Str("required")

\* the value an input of each type stands for: a number for `number` and
\* `range`, the selected files in their order for `file`, the raw value else
ValueByType(el) ==
    CASE el.type \in {"number", "range"} -> ToNumber(el.value)
      [] el.type = "file"                -> ArrLit(el.files)
      [] OTHER                           -> el.value

\* C26: getInputValue returns, and handleChange therefore stores, the number
\* the raw string denotes for inputs of type number and range, the sequence of
\* the selected files for inputs of type file, and the raw value as it is for
\* every other type.
C26_InputValueByType ==
    [][\A el \in InputElements :
         HandleChangeWith("name", el) =>
            /\ getInputValue(el) = ValueByType(el)
            /\ Field(heap', values', "name") = ValueByType(el)]_vars

InFlight(c) == calls[c].pc # "idle"

NoErrors == \A k \in DOMAIN __errors : __errors[k] = Null

\* C27: a handleSubmit call running on its own clears every error, messages
\* set before it included, and sets isSubmitting before its validation
\* starts, sets isValidating for the time of the validation, and invokes
\* onSubmit after it: while the validation is pending and while onSubmit runs
\* isSubmitting is true and every errors entry is null.
C27_SubmitOrder ==
    /\ [](\A c \in Calls :
            /\ Validating(c) => __isSubmitting /\ __isValidating /\ NoErrors
            /\ Submitted(c) => __isSubmitting /\ ~__isValidating /\ NoErrors
            /\ Submitted(c) /\ HasSchema => calls[c].outcome = Pass)
    /\ [][\A c \in Calls :
            /\ (~InFlight(c) /\ InFlight(c)') =>
                  /\ DOMAIN __errors' = DOMAIN Props(heap, __initialValues)
                  /\ Validating(c)' <=> HasSchema
            /\ Submitted(c)' /\ ~Submitted(c) /\ HasSchema => Validating(c)]_vars

\* onSubmit is running after a validation that passed on a form of two
\* fields, one of which carried a message before
C27_Witness ==
    /\ HasSchema
    /\ \E c \in Calls : Submitted(c) /\ calls[c].outcome = Pass /\ calls[c].invoked = 1
    /\ DOMAIN __errors = {"name", "tags"}
    /\ NoErrors
    /\ __isSubmitting
    /\ ~__isValidating

\* what call c holds as currentValues, with references followed
Snapshot(h, cls, c) == Deep(h, cls[c].currentValues)

\* C28: a handleSubmit call validates the object that is in the values store
\* when it is called and passes that same object to onSubmit; as long as the
\* call is in flight, setFieldValue and reset by others leave the object's
\* content and the pending verdict as they were at the call.
C28_OneSnapshot ==
    [][\A c \in Calls :
         /\ (~InFlight(c) /\ InFlight(c)') =>
               /\ Snapshot(heap', calls', c) = Deep(heap, values)
               /\ Validating(c)' =>
                     calls'[c].outcome \in ValidateOutcomes(heap, Props(heap, values))
         /\ (InFlight(c) /\ InFlight(c)') =>
               /\ Snapshot(heap', calls', c) = Snapshot(heap, calls, c)
               /\ calls'[c].outcome = calls[c].outcome
         /\ Submitted(c)' => calls'[c].arg = calls'[c].currentValues]_vars

\* onSubmit is running with the values of the time of the call, the field
\* having been written since
C28_Witness ==
    /\ HasSchema
    /\ \E c \in Calls :
          /\ Submitted(c)
          /\ calls[c].outcome = Pass
          /\ Deep(heap, calls[c].arg) # Deep(heap, values)
          /\ Field(heap, calls[c].arg, "name") = Str("ab")
          /\ Field(heap, values, "name") = Str("")

\* C29: in every reachable state, overlapping handleSubmit calls included,
\* isValidating is true only if isSubmitting is true.
C29_ValidatingImpliesSubmitting == __isValidating => __isSubmitting

\* C30: in every reachable state, as long as some handleSubmit call that has
\* set isSubmitting is still in flight - its validation or its onSubmit
\* pending - isSubmitting is true, also after an overlapping call has ended.
C30_SubmittingWhileInFlight == (\E c \in Calls : InFlight(c)) => __isSubmitting

\* C31: when a validateField call settles and leaves no validation of its
\* field pending, errors[f] is the schema's verdict on the value f has then:
\* the first message if it is rejected, null if it is accepted - whatever
\* value the settling call was started on.
C31_VerdictOnCurrentValue ==
    [][\A s \in Slots :
         (/\ HasSchema
          /\ ValidateFieldSettle(s)
          /\ ~IsOtherThrow(pending[s].outcome)
          /\ PendingOn(pending', pending[s].field) = {})
         => __errors'[pending[s].field] =
               Verdict(heap', Props(heap', values'), pending[s].field, Null)]_vars

\* C32: a handleSubmit call that ends without invoking onSubmit because
\* validate threw an error carrying `inner` leaves at least one message in
\* the errors store, whatever `inner` holds.
C32_BlockedSubmitHasMessage ==
    (/\ last.op = "handleSubmit"
     /\ last.via = "validate"
     /\ IsValidationFailure(last.outcome)
     /\ last.invoked = 0)
    => \E k \in DOMAIN __errors : IsStr(__errors[k])

\* a step that changes nothing of the form but the errors entry of f
OnlyErrorOf(f) ==
    /\ UNCHANGED <<heap, values, __initialValues, __touched,
                   __isSubmitting, __isValidating>>
    /\ DOMAIN __errors' \subseteq DOMAIN __errors \cup {f}
    /\ \A k \in DOMAIN __errors \ {f} : k \in DOMAIN __errors' /\ __errors'[k] = __errors[k]

\* C33: validateField(f) and validateFieldSync(f) change at most the errors
\* entry of f: values, initialValues, touched and the two flags stay as they
\* are, every errors entry under another key stays as it is, and no key other
\* than f is added to the errors store.
C33_ValidateFieldFrame ==
    [][/\ \A s \in Slots : ValidateFieldSettle(s) => OnlyErrorOf(pending[s].field)
       /\ ValidateFieldSync("name") => OnlyErrorOf("name")]_vars

\* the containers an object's fields refer to
Containers(h, ref) == {Props(h, ref)[k].ref : k \in {x \in DOMAIN Props(h, ref) : IsRef(Props(h, ref)[x])}}

\* C34: clone(obj) returns an object with the keys of obj and equal values,
\* none of whose arrays and objects is one obj holds (setInitialValues stores
\* clone(initialValues)); clone(obj, d) returns the keys of obj, each mapped
\* to d (clearErrors stores clone(initialValues, null)).
C34_CloneCopies ==
    [][/\ \A lit \in CloneInputs :
            SetInitialValuesWith(lit)
            => /\ Deep(heap', __initialValues') = Deep(heap', caller')
               /\ __initialValues' # caller'
               /\ Containers(heap', __initialValues') \cap Containers(heap', caller') = {}
       /\ ClearErrors
            => __errors' = [k \in DOMAIN Props(heap, __initialValues) |-> Null]]_vars

====
